---- MODULE Spec2Model ----
(***************************************************************************)
(* pynoisecriteria: NC_table (src/NC_criteria.py).                         *)
(*                                                                         *)
(* An NC_table object holds the Beranek NC curves (level_mat, 10 curves x  *)
(* 8 octave bands), the measurement (data) and, after calculate(), the     *)
(* comparison matrices and the classification.  The object is modelled as  *)
(* its attribute dictionary `self`: an attribute that has not been         *)
(* assigned yet is not in DOMAIN self.  Arrays are functions on 0..n-1, so *)
(* that indices are the source's indices.  Sound levels are whole dB.      *)
(***************************************************************************)
EXTENDS Integers, Sequences, FiniteSets, TLC

VARIABLES
    self,    \* the attributes of the NC_table object
    files,   \* the files written by save() and plot_mat(): name -> content
    last     \* the last call on the object and the exception it raised

vars == <<self, files, last>>

----------------------------------------------------------------------------
(* Python values *)

None == [t |-> "NoneType"]

str(chunks) == [t |-> "str", s |-> chunks]

\* an array of ndim 0 (a scalar) or 1; val holds the elements
ndarray(ndim, val) == [t |-> "ndarray", ndim |-> ndim, val |-> val]

Arr(s) == [i \in 0..(Len(s) - 1) |-> s[i + 1]]

size(a) == Cardinality(DOMAIN a)

NoExc == "no exception"

----------------------------------------------------------------------------
(* The reference table, NC_table.__init__ *)

octave_bands == Arr(<<63, 125, 250, 500, 1000, 2000, 4000, 8000>>)

level_mat_typo ==
    Arr(<< Arr(<<47, 36, 29, 22, 17, 14, 12, 11>>),
           Arr(<<51, 40, 33, 26, 22, 19, 17, 16>>),
           Arr(<<54, 44, 37, 31, 27, 24, 22, 21>>),
           Arr(<<57, 48, 41, 35, 31, 29, 28, 27>>),
           Arr(<<60, 52, 45, 40, 36, 34, 33, 32>>),
           Arr(<<46, 56, 50, 45, 41, 39, 38, 37>>),
           Arr(<<67, 60, 54, 49, 46, 44, 43, 42>>),
           Arr(<<71, 64, 58, 54, 51, 49, 48, 47>>),
           Arr(<<74, 67, 62, 58, 56, 54, 53, 52>>),
           Arr(<<77, 71, 67, 63, 61, 59, 58, 57>>) >>)

level_mat ==
    Arr(<< Arr(<<47, 36, 29, 22, 17, 14, 12, 11>>),
           Arr(<<51, 40, 33, 26, 22, 19, 17, 16>>),
           Arr(<<54, 44, 37, 31, 27, 24, 22, 21>>),
           Arr(<<57, 48, 41, 35, 31, 29, 28, 27>>),
           Arr(<<60, 52, 45, 40, 36, 34, 33, 32>>),
           Arr(<<64, 56, 50, 45, 41, 39, 38, 37>>),
           Arr(<<67, 60, 54, 49, 46, 44, 43, 42>>),
           Arr(<<71, 64, 58, 54, 51, 49, 48, 47>>),
           Arr(<<74, 67, 62, 58, 56, 54, 53, 52>>),
           Arr(<<77, 71, 67, 63, 61, 59, 58, 57>>) >>)

\* ["NC-"+str(i) for i in range(15,65,5)]
levels == [k \in 0..9 |-> "NC-" \o ToString(15 + 5 * k)]

Rows == DOMAIN level_mat

Bands == DOMAIN octave_bands

----------------------------------------------------------------------------
(* numpy *)

\* F applied to the value of v, which is computed once
Let(v, F(_)) == CHOOSE x \in {F(w) : w \in {v}} : TRUE

\* np.where(a)[0] of a boolean vector: the indices of its True elements,
\* ascending
np_where(a) ==
    Let(a, LAMBDA v :
        Arr(SelectSeq([k \in 1..size(v) |-> k - 1], LAMBDA i : v[i])))

\* np.where(m) of a boolean matrix: the (row, column) indices of its True
\* cells in row-major order, as the pair (rows, columns)
np_where2(m) ==
    LET ncol == size(m[0])
    IN  Let(np_where([k \in 0..(size(m) * ncol - 1) |->
                         m[k \div ncol][k % ncol]]),
            LAMBDA idx : Arr(<< [p \in DOMAIN idx |-> idx[p] \div ncol],
                                [p \in DOMAIN idx |-> idx[p] % ncol] >>))

\* np.all(m, axis=1)
np_all_axis1(m) == [i \in DOMAIN m |-> \A b \in DOMAIN m[i] : m[i][b]]

Range(a) == {a[i] : i \in DOMAIN a}

amin(a) == CHOOSE x \in Range(a) : \A y \in Range(a) : x <= y

amax(a) == CHOOSE x \in Range(a) : \A y \in Range(a) : y <= x

\* data broadcasts against the (10, 8) level_mat when it is a scalar or
\* its length is 1 or the number of columns
broadcastable(d, mat) == d.ndim = 0 \/ size(d.val) \in {1, size(mat[0])}

\* element of the broadcast data in column b
bcast(d, b) == IF size(d.val) = 1 THEN d.val[0] ELSE d.val[b]

----------------------------------------------------------------------------
(* NC_table.calculate *)

lt_NC_gt(d, mat) ==
    [i \in DOMAIN mat |-> [b \in DOMAIN mat[i] |-> bcast(d, b) > mat[i][b]]]

lt_NC_le(d, mat) ==
    [i \in DOMAIN mat |-> [b \in DOMAIN mat[i] |-> bcast(d, b) <= mat[i][b]]]

\* self.data < self.level_mat
lt_NC_of(d, mat) ==
    [i \in DOMAIN mat |-> [b \in DOMAIN mat[i] |-> bcast(d, b) < mat[i][b]]]

gt_NC_gt(d, mat) ==
    [i \in DOMAIN mat |-> [b \in DOMAIN mat[i] |-> bcast(d, b) > mat[i][b]]]

\* self.data >= self.level_mat
gt_NC_of(d, mat) ==
    [i \in DOMAIN mat |-> [b \in DOMAIN mat[i] |-> bcast(d, b) >= mat[i][b]]]

\* np.where(np.all(self.lt_NC, axis=1))[0]
all_lt_NC_rows_of(lt) == np_where(np_all_axis1(lt))

nc_level_max(rows, lv) == lv[amax(rows)]

\* self.levels[self.all_lt_NC_rows.min()]
nc_level_of(rows, lv) == lv[amin(rows)]

freq_at_min_level(idx) ==
    Let(amin(idx[0]), LAMBDA min_row :
        np_where([p \in DOMAIN idx[0] |-> idx[0][p] = min_row]))

\* np.where(self.gt_NC_idx[0] == max_row)[0], max_row = self.gt_NC_idx[0].max()
freq_at_max_level_of(idx) ==
    Let(amax(idx[0]), LAMBDA max_row :
        np_where([p \in DOMAIN idx[0] |-> idx[0][p] = max_row]))

\* self.gt_NC_idx[1][self.freq_at_max_level]
freqs_of(idx, fm) == [p \in DOMAIN fm |-> idx[1][fm[p]]]

\* calculate() from line 116 on, the comparison matrices lt and gt assigned
find_NC_level(s, lt, gt) ==
    Let(all_lt_NC_rows_of(lt), LAMBDA rows :
    LET s1 == ("lt_NC" :> lt) @@ ("gt_NC" :> gt)
                  @@ ("all_lt_NC_rows" :> rows) @@ s
    IN  IF size(rows) = 0
        THEN [self |-> s1,
              raised |-> "ValueError: zero-size array to reduction operation minimum"]
        ELSE
        Let(np_where2(gt), LAMBDA idx :
        LET s2 == ("nc_level" :> nc_level_of(rows, s.levels))
                      @@ ("gt_NC_idx" :> idx) @@ s1
        IN  IF size(idx[0]) = 0
            THEN [self |-> s2,
                  raised |-> "ValueError: zero-size array to reduction operation maximum"]
            ELSE
            Let(freq_at_max_level_of(idx), LAMBDA fm :
                [self |-> ("freq_at_max_level" :> fm)
                              @@ ("freqs" :> freqs_of(idx, fm)) @@ s2,
                 raised |-> NoExc])))

\* the object after calculate() on object s, and the exception raised
NC_table_calculate(s) ==
    IF s.data = None
    THEN [self |-> s, raised |-> "ValueError: No input data."]
    ELSE IF ~broadcastable(s.data, s.level_mat)
    THEN [self |-> s,
          raised |-> "ValueError: operands could not be broadcast together"]
    ELSE Let(lt_NC_of(s.data, s.level_mat), LAMBDA lt :
         Let(gt_NC_of(s.data, s.level_mat), LAMBDA gt :
             find_NC_level(s, lt, gt)))

calculate ==
    \E r \in {NC_table_calculate(self)} :
        /\ self' = r.self
        /\ last' = [op |-> "calculate", raised |-> r.raised]
        /\ UNCHANGED files

----------------------------------------------------------------------------
(* NC_table.save, NC_table.load *)

Header == "freq Hz,Noise dB"

NC_table_save_unguarded(s, fs, filename) ==
    IF s.data = None \/ s.data.ndim = 0 \/ size(s.data.val) # size(s.octave_bands)
    THEN [files |-> fs,
          raised |-> "ValueError: all the input array dimensions must match"]
    ELSE [files |-> (filename :>
                       [header |-> Header,
                        rows |-> [k \in 1..size(s.octave_bands) |->
                                    <<s.octave_bands[k - 1], s.data.val[k - 1]>>]])
                    @@ fs,
          raised |-> NoExc]

\* the files after save(filename) on object s, and the exception raised.
\* np.column_stack needs as many levels as bands; fmt "%.2f" prints a whole
\* level v as v.00, which np.loadtxt reads back as v.
NC_table_save(s, fs, filename) ==
    IF s.data = None
    THEN [files |-> fs, raised |-> "ValueError: No data"]
    ELSE IF s.data.ndim = 0 \/ size(s.data.val) # size(s.octave_bands)
    THEN [files |-> fs,
          raised |-> "ValueError: all the input array dimensions must match"]
    ELSE [files |-> (filename :>
                       [header |-> Header,
                        rows |-> [k \in 1..size(s.octave_bands) |->
                                    <<s.octave_bands[k - 1], s.data.val[k - 1]>>]])
                    @@ fs,
          raised |-> NoExc]

\* the object after load() of a file with this content, and the exception
\* raised.  np.loadtxt(skiprows=1) drops the header line and squeezes the
\* result: no row gives shape (0,), one row shape (2,), n rows shape (n, 2).
NC_table_load(s, content) ==
    LET rows == content.rows
    IN  IF Len(rows) = 0
        THEN [self |-> s, raised |-> "IndexError: index 1 is out of bounds"]
        ELSE IF Len(rows) = 1
        THEN [self |-> ("data" :> ndarray(0, Arr(<<rows[1][2]>>))) @@ s,
              raised |-> NoExc]
        ELSE [self |-> ("data" :> ndarray(1, [i \in 0..(Len(rows) - 1) |->
                                                 rows[i + 1][2]])) @@ s,
              raised |-> NoExc]

----------------------------------------------------------------------------

(* Strings: a file name is a sequence of chunks whose last chunk is its
   4-character extension *)

\* loadfile[:-4]
strip4(name) == str(SubSeq(name.s, 1, Len(name.s) - 1))

\* name + ext
plus(name, ext) == str(Append(name.s, ext))

----------------------------------------------------------------------------
(* Inputs *)

\* the largest number of data rows of a file given to load()
MaxFileRows == 9

SampleMeasurements == {level_mat[0], level_mat[9]}

\* a file of n data rows holding measurement m (rows past the 8th repeat
\* the last level)
FileOf(m, n) ==
    [header |-> Header,
     rows |-> [k \in 1..n |->
                 IF k <= size(m) THEN <<octave_bands[k - 1], m[k - 1]>>
                 ELSE <<16000, m[size(m) - 1]>>]]

\* the files a user may give to load(): each sample measurement, and files
\* of every other number of rows
ExternalContents ==
    {FileOf(m, size(m)) : m \in SampleMeasurements}
        \cup {FileOf(level_mat[0], n) : n \in 0..MaxFileRows}

ExternalNames == {str(<<"in", ".csv">>)}

SaveNames == {str(<<"out", ".csv">>)}

Timestamps == {"20240101-120000"}

\* the levels typed at the 8 prompts of input_levels(): 50 dB at the first
\* n bands or at every other band, a negative level elsewhere
TypedLevels ==
    {[b \in Bands |-> IF b < n THEN 50 ELSE -1] : n \in 0..size(octave_bands)}
        \cup {[b \in Bands |-> IF b % 2 = 1 THEN 50 ELSE -1]}

----------------------------------------------------------------------------
(* NC_table.__init__ *)

Table == [octave_bands |-> octave_bands, level_mat |-> level_mat,
          levels |-> levels]

\* NC_table(): no measurement
InitEmpty ==
    /\ self = ("data" :> None) @@ ("filename" :> None) @@ Table
    /\ files = <<>>
    /\ last = [op |-> "__init__", raised |-> NoExc]

\* NC_table(loadfile): the object exists only if load() did not raise
InitLoaded(contents) ==
    \E loadfile \in ExternalNames, content \in contents :
        LET r == NC_table_load(Table, content)
        IN  /\ r.raised = NoExc
            /\ self = ("filename" :> strip4(loadfile)) @@ r.self
            /\ files = <<>>
            /\ last = [op |-> "__init__", raised |-> NoExc]

Init == InitEmpty \/ InitLoaded(ExternalContents)

----------------------------------------------------------------------------
(* Operations *)

load ==
    \E filename \in ExternalNames \cup SaveNames \cup DOMAIN files :
        /\ filename.s[Len(filename.s)] = ".csv"
        /\ IF filename \in DOMAIN files \/ filename \in ExternalNames
           THEN \E content \in (IF filename \in DOMAIN files
                                THEN {files[filename]}
                                ELSE ExternalContents) :
                    LET r == NC_table_load(self, content)
                    IN  /\ self' = r.self
                        /\ last' = [op |-> "load", raised |-> r.raised]
           ELSE /\ self' = self
                /\ last' = [op |-> "load", raised |-> "FileNotFoundError"]
        /\ UNCHANGED files

save ==
    \E filename \in SaveNames :
        LET r == NC_table_save(self, files, filename)
        IN  /\ files' = r.files
            /\ last' = [op |-> "save", raised |-> r.raised]
            /\ UNCHANGED self

\* the levels l >= 0 among the 8 typed levels, in band order
input_data_of(typed) ==
    Arr(SelectSeq([k \in 1..size(typed) |-> typed[k - 1]], LAMBDA l : l >= 0))

input_levels ==
    \E typed \in TypedLevels, timestamp \in Timestamps :
        LET s1 == ("data" :> ndarray(1, input_data_of(typed)))
                      @@ ("filename" :> str(<<timestamp, "-NC-criteria">>))
                      @@ self
            r  == NC_table_save(s1, files, plus(s1.filename, ".csv"))
        IN  /\ self' = s1
            /\ files' = r.files
            /\ last' = [op |-> "input_levels", raised |-> r.raised]

\* calculate(), the printed report, then plot_mat(overlay_ar=self.data,
\* filename=self.filename+'.png')
calculate_levels ==
    \E r \in {NC_table_calculate(self)} :
    LET s == r.self
    IN  /\ self' = s
        /\ IF r.raised # NoExc
           THEN /\ last' = [op |-> "calculate_levels", raised |-> r.raised]
                /\ UNCHANGED files
           ELSE IF s.filename = None
           THEN /\ last' = [op |-> "calculate_levels",
                            raised |-> "TypeError: unsupported operand type(s) for +"]
                /\ UNCHANGED files
           ELSE IF s.data.ndim = 0 \/ size(s.data.val) # size(s.level_mat[0])
           THEN /\ last' = [op |-> "calculate_levels",
                            raised |-> "ValueError: x and y must have same first dimension"]
                /\ UNCHANGED files
           ELSE /\ last' = [op |-> "calculate_levels", raised |-> NoExc]
                /\ files' = (plus(s.filename, ".png") :>
                                [header |-> "PNG", rows |-> <<>>]) @@ files

\* an NC_table object used through its methods
Next == load \/ save \/ input_levels \/ calculate \/ calculate_levels

Spec == Init /\ [][Next]_vars

----------------------------------------------------------------------------
(* The script: NC_table(loadfile=sys.argv[1]), then calculate_levels(), over
   the 8-band measurements that lie on or just under a curve in each band,
   or that lie just under a curve except for one band lying on another *)

Offsets == {-1, 0}

NearCurve ==
    {[b \in Bands |-> level_mat[i][b] + o[b]] :
        i \in Rows, o \in [Bands -> Offsets]}

Peaked ==
    {[b \in Bands |-> IF b = p THEN level_mat[j][b] ELSE level_mat[i][b] - 1] :
        i \in Rows, j \in Rows, p \in Bands}

Measurements == NearCurve \cup Peaked

InitClassify == InitLoaded({FileOf(m, size(m)) : m \in Measurements})

NextClassify == calculate \/ calculate_levels

SpecClassify == InitClassify /\ [][NextClassify]_vars

----------------------------------------------------------------------------
(* Properties *)

\* calculate() was the last call (directly or from calculate_levels())
CalcRan == last.op \in {"calculate", "calculate_levels"}

\* the measurement is an array of exactly 8 levels
Data8 ==
    /\ self.data # None
    /\ self.data.ndim = 1
    /\ size(self.data.val) = size(octave_bands)

Has(attr) == attr \in DOMAIN self

\* curve row i is satisfied by measurement m: m is strictly below it in
\* every band
Satisfied(m, i) == \A b \in Bands : m[b] < level_mat[i][b]

SatisfiedRows(m) == {i \in Rows : Satisfied(m, i)}

\* the bands in which m meets or exceeds curve row i
ExceedingBands(m, i) == {b \in Bands : m[b] >= level_mat[i][b]}

ExceedingRows(m) == {i \in Rows : ExceedingBands(m, i) # {}}

MinOf(S) == CHOOSE x \in S : \A y \in S : x <= y

MaxOf(S) == CHOOSE x \in S : \A y \in S : y <= x

\* the elements of a set of numbers as an ascending array
Ascending(S) ==
    [p \in 0..(Cardinality(S) - 1) |->
        CHOOSE x \in S : Cardinality({y \in S : y < x}) = p]

LevelIndex(name) == CHOOSE i \in Rows : levels[i] = name

\* C1: for an 8-level measurement that satisfies some curve row, calculate()
\* sets nc_level to the name of the satisfied row of minimum index.
C1_FirstSatisfiedCurve ==
    (CalcRan /\ Data8 /\ SatisfiedRows(self.data.val) # {})
        => /\ Has("nc_level")
           /\ self.nc_level = levels[MinOf(SatisfiedRows(self.data.val))]

C1_Witness ==
    /\ CalcRan /\ Data8
    /\ Cardinality(SatisfiedRows(self.data.val)) = 4
    /\ Has("nc_level") /\ self.nc_level = "NC-45"

\* C2: a measurement strictly below the NC-15 row in all 8 bands is
\* classified without error as NC-15 with an empty set of driving bands.
C2_QuietIsNC15 ==
    (CalcRan /\ Data8 /\ \A b \in Bands : self.data.val[b] < level_mat[0][b])
        => /\ last.raised = NoExc
           /\ Has("nc_level") /\ self.nc_level = "NC-15"
           /\ Has("freqs") /\ size(self.freqs) = 0

\* C3: when no curve row is satisfied (in particular when all 8 levels are at
\* or above the NC-60 row), calculate() raises and assigns no NC level.
C3_NoCurveIsAnError ==
    (CalcRan /\ Data8 /\ SatisfiedRows(self.data.val) = {})
        => /\ last.raised # NoExc
           /\ ~Has("nc_level")

C3_Witness ==
    /\ CalcRan /\ Data8
    /\ \A b \in Bands : self.data.val[b] >= level_mat[9][b]
    /\ last.raised = "ValueError: zero-size array to reduction operation minimum"
    /\ ~Has("nc_level")

\* the measurements that are lower than m by k dB in one band, in all bands
\* but one, or in all bands
Drops == {1, 4, 10}

DropSets == {{b} : b \in Bands} \cup {Bands \ {b} : b \in Bands} \cup {Bands}

Quieter(m) ==
    {[b \in Bands |-> IF b \in S THEN m[b] - k ELSE m[b]] :
        S \in DropSets, k \in Drops}

\* the satisfied rows that calculate() finds for measurement m
RowsFound(m) == all_lt_NC_rows_of(lt_NC_of(ndarray(1, m), level_mat))

\* C4: when a measurement M2 is classified, every measurement M1 that is
\* nowhere above M2 is classified too, and to a curve of row index at most
\* that of M2.
C4_Monotone ==
    (CalcRan /\ Data8 /\ Has("all_lt_NC_rows") /\ size(self.all_lt_NC_rows) > 0)
        => \A m1 \in Quieter(self.data.val) :
               \E rows1 \in {RowsFound(m1)} :
                   /\ size(rows1) > 0
                   /\ LevelIndex(nc_level_of(rows1, levels))
                          <= LevelIndex(self.nc_level)

C4_Witness ==
    /\ CalcRan /\ Data8 /\ Has("nc_level")
    /\ LevelIndex(self.nc_level) = 5
    /\ \E m1 \in Quieter(self.data.val) :
           \E rows1 \in {RowsFound(m1)} :
               /\ size(rows1) > 0
               /\ LevelIndex(nc_level_of(rows1, levels)) = 3

\* C5: a measurement equal to curve row i (i in 0..8) in all 8 bands does not
\* satisfy row i, exceeds it in all 8 cells, is classified as the next curve
\* and has all 8 bands as driving bands; every cell is in exactly one of
\* lt_NC and gt_NC.
C5_Boundary ==
    CalcRan =>
        /\ Has("lt_NC") =>
               \A i \in Rows, b \in Bands : self.lt_NC[i][b] # self.gt_NC[i][b]
        /\ \A i \in 0..8 :
               (Data8 /\ self.data.val = level_mat[i])
                   => /\ \A b \in Bands : ~self.lt_NC[i][b] /\ self.gt_NC[i][b]
                      /\ last.raised = NoExc
                      /\ self.nc_level = levels[i + 1]
                      /\ self.freqs = [b \in Bands |-> b]

C5_Witness ==
    /\ CalcRan /\ Data8
    /\ self.data.val = level_mat[0]
    /\ self.nc_level = "NC-20"
    /\ self.freqs = Arr(<<0, 1, 2, 3, 4, 5, 6, 7>>)

\* C6: with no measurement loaded, calculate() and save() raise the
\* missing-data error and change neither the object nor the files.
C6_NoDataFails ==
    [][(self.data = None /\ last'.op \in {"calculate", "save"} /\ vars' # vars)
           => /\ last'.raised = (IF last'.op = "calculate"
                                 THEN "ValueError: No input data."
                                 ELSE "ValueError: No data")
              /\ self' = self
              /\ files' = files]_vars

C6_Witness ==
    /\ self.data = None
    /\ last = [op |-> "save", raised |-> "ValueError: No data"]
    /\ files = <<>>
    /\ ~Has("lt_NC") /\ ~Has("nc_level")

\* C7: calculate() on a measurement whose length is not 8 raises the shape
\* error.
C7_ShapeError ==
    (last.op = "calculate" /\ self.data # None /\ ~Data8)
        => last.raised = "ValueError: operands could not be broadcast together"

\* C8: whenever nc_level and freqs are set, they are the classification and
\* the driving bands of the current measurement.
C8_ResultIsCurrent ==
    (Data8 /\ Has("nc_level") /\ Has("freqs"))
        => /\ SatisfiedRows(self.data.val) # {}
           /\ self.nc_level = levels[MinOf(SatisfiedRows(self.data.val))]
           /\ ExceedingRows(self.data.val) # {}
           /\ self.freqs =
                  Ascending(ExceedingBands(self.data.val,
                                           MaxOf(ExceedingRows(self.data.val))))

\* C9: for a classified 8-level measurement that exceeds some cell, freqs is
\* the ascending list of the bands that exceed at the highest row having any
\* exceeding band.
C9_DrivingBands ==
    (CalcRan /\ Data8 /\ SatisfiedRows(self.data.val) # {}
            /\ ExceedingRows(self.data.val) # {})
        => /\ Has("freqs")
           /\ self.freqs =
                  Ascending(ExceedingBands(self.data.val,
                                           MaxOf(ExceedingRows(self.data.val))))

C9_Witness ==
    /\ CalcRan /\ Data8 /\ Has("freqs")
    /\ MaxOf(ExceedingRows(self.data.val)) = 6
    /\ self.freqs = Arr(<<1, 4, 6>>)
    /\ ExceedingBands(self.data.val, 0) = Bands

\* C10: the satisfied rows are a suffix of the rows and the rows with an
\* exceeding cell the complementary prefix; when calculate() completes, the
\* assigned row is the highest row with an exceeding cell plus one and has no
\* exceeding cell itself.
C10_SuffixAndPrefix ==
    (CalcRan /\ Data8)
        => /\ \A i \in Rows, j \in Rows :
                  (i <= j /\ \A b \in Bands : self.lt_NC[i][b])
                      => \A b \in Bands : self.lt_NC[j][b]
           /\ \A i \in Rows, j \in Rows :
                  (i <= j /\ \E b \in Bands : self.gt_NC[j][b])
                      => \E b \in Bands : self.gt_NC[i][b]
           /\ \A i \in Rows :
                  (\E b \in Bands : self.gt_NC[i][b])
                      <=> ~(\A b \in Bands : self.lt_NC[i][b])
           /\ (last.raised = NoExc /\ size(self.freqs) > 0)
                  => /\ LevelIndex(self.nc_level) = amax(self.gt_NC_idx[0]) + 1
                     /\ \A b \in Bands :
                            ~self.gt_NC[LevelIndex(self.nc_level)][b]

C10_Witness ==
    /\ CalcRan /\ Data8
    /\ last.raised = NoExc
    /\ size(self.freqs) = 1
    /\ LevelIndex(self.nc_level) = 7
    /\ amax(self.gt_NC_idx[0]) = 6

====
